---- MODULE Spec2Model ----
(***************************************************************************)
(* Model of assets-exchange: the per-account transaction state machine of  *)
(* src/src/account.rs (Spec), the Service and Account that src/src/main.rs *)
(* declares and runs (SpecService), and the reading of an amount by        *)
(* serde_amount::deserialize of src/src/transaction.rs (SpecAmount).       *)
(*                                                                         *)
(* In Spec and SpecService amounts are integers counting units of 0.0001,  *)
(* so += and -= are exact integer addition and subtraction, and amounts    *)
(* are drawn from 0..MaxAmount; negative numerals, which the reader also   *)
(* accepts, are not enumerated.  SpecAmount computes in f64, exactly.      *)
(***************************************************************************)
EXTENDS Integers, FiniteSets, Sequences, TLC

\* ---------------------------------------------------------------- bounds
MaxTxId == 1
MaxAmount == 1
MaxBalance == 2

\* the longest run of Service::apply calls
MaxCalls == 4

\* the amounts read are the numerals digits / 10^places and their negatives,
\* for digits up to MaxDigits and places up to MaxPlaces
MaxDigits == 40

MaxPlaces == 5

TxIds == 0..MaxTxId
\* amounts in units of 0.0001, zero included
Amounts == 0..MaxAmount
\* a Dispute, Resolve or Chargeback carries the placeholder 0 or any amount
PlaceholderAmounts == {0, MaxAmount}

\* ------------------------------------------------------- transaction.rs
TransactionType == {"Deposit", "Withdrawal", "Dispute", "Resolve", "Chargeback"}

Transaction(type, tx, amount) ==
    [type |-> type, client |-> 0, tx |-> tx, amount |-> amount]

\* ------------------------------------------------------------ account.rs
TransactionError ==
    {"UnsufficientFunds", "AccountLocked", "AlreadyDisputed",
     "NotDisputed", "NotFound", "AlreadyExist"}

DisputableTransaction(tx, disputed) ==
    [transaction |-> tx, disputed |-> disputed]

AccountDefault ==
    [id |-> 0, available |-> 0, total |-> 0, held |-> 0,
     locked |-> FALSE, tx_history |-> <<>>]

\* the value a call returns: Ok(()) or the error with the field it carries,
\* which is the transaction for UnsufficientFunds, its tx id for
\* AlreadyDisputed, NotDisputed, NotFound and AlreadyExist, nothing for
\* AccountLocked
ResultValue(kind, tx) ==
    CASE kind = "UnsufficientFunds" -> <<kind, tx>>
      [] kind \in {"AlreadyDisputed", "NotDisputed", "NotFound", "AlreadyExist"} ->
            <<kind, tx.tx>>
      [] OTHER -> <<kind>>

\* TransactionResult<()>: the account as the call leaves it, and Ok or the
\* error kind; "Panic" stands for reaching unreachable!()
Ok(self) == [self |-> self, result |-> "Ok"]
Err(self, e) == [self |-> self, result |-> e]

VARIABLES available, held, total, locked, tx_history,
          last_tx, result, before, round_trip, after_rejected, redispute,
          accounts, svc_tx, svc_result, svc_before, svc_calls,
          numeral, parsed

vars == <<available, held, total, locked, tx_history,
          last_tx, result, before, round_trip, after_rejected, redispute,
          accounts, svc_tx, svc_result, svc_before, svc_calls,
          numeral, parsed>>

account_vars == <<available, held, total, locked, tx_history,
                  last_tx, result, before, round_trip, after_rejected, redispute>>

service_vars == <<accounts, svc_tx, svc_result, svc_before, svc_calls>>

amount_vars == <<numeral, parsed>>

Self ==
    [id |-> 0, available |-> available, total |-> total, held |-> held,
     locked |-> locked, tx_history |-> tx_history]

\* Account::save_tx: insert unless the id is already a key of tx_history
save_tx_overwrites(self, tx) ==
    Ok([self EXCEPT !.tx_history =
           (tx.tx :> DisputableTransaction(tx, FALSE)) @@ self.tx_history])

save_tx_stores_disputed(self, tx) ==
    IF tx.tx \in DOMAIN self.tx_history
    THEN Err(self, "AlreadyExist")
    ELSE Ok([self EXCEPT !.tx_history =
                (tx.tx :> DisputableTransaction(tx, TRUE)) @@ self.tx_history])

save_tx(self, tx) ==
    IF tx.tx \in DOMAIN self.tx_history
    THEN Err(self, "AlreadyExist")
    ELSE Ok([self EXCEPT !.tx_history =
                (tx.tx :> DisputableTransaction(tx, FALSE)) @@ self.tx_history])

\* handle_disputes, first match: (disputable_tx.disputed, current_tx.type)
legality_gate_allows_redispute(disputed, type) ==
    CASE ~disputed /\ type = "Resolve" -> "NotDisputed"
      [] ~disputed /\ type = "Chargeback" -> "NotDisputed"
      [] OTHER -> "Ok"

legality_gate_allows_chargeback(disputed, type) ==
    CASE disputed /\ type = "Dispute" -> "AlreadyDisputed"
      [] ~disputed /\ type = "Resolve" -> "NotDisputed"
      [] OTHER -> "Ok"

legality_gate(disputed, type) ==
    CASE disputed /\ type = "Dispute" -> "AlreadyDisputed"
      [] ~disputed /\ type = "Resolve" -> "NotDisputed"
      [] ~disputed /\ type = "Chargeback" -> "NotDisputed"
      [] OTHER -> "Ok"

SetDisputed(self, id, d) ==
    [self EXCEPT !.tx_history[id].disputed = d]

\* handle_disputes, stored Deposit, current Dispute
deposit_dispute_unchecked(self, current_tx) ==
    LET amount == self.tx_history[current_tx.tx].transaction.amount IN
    Ok(SetDisputed([self EXCEPT !.available = @ - amount,
                                !.held = @ + amount],
                   current_tx.tx, TRUE))

deposit_dispute_keeps_flag(self, current_tx) ==
    LET amount == self.tx_history[current_tx.tx].transaction.amount IN
    IF self.available < amount
    THEN Err(self, "UnsufficientFunds")
    ELSE Ok([self EXCEPT !.available = @ - amount,
                         !.held = @ + amount])

deposit_dispute(self, current_tx) ==
    LET amount == self.tx_history[current_tx.tx].transaction.amount IN
    IF self.available < amount
    THEN Err(self, "UnsufficientFunds")
    ELSE Ok(SetDisputed([self EXCEPT !.available = @ - amount,
                                     !.held = @ + amount],
                        current_tx.tx, TRUE))

\* handle_disputes, stored Deposit, current Resolve
deposit_resolve_uses_tx_amount(self, current_tx) ==
    Ok(SetDisputed([self EXCEPT !.available = @ + current_tx.amount,
                                !.held = @ - current_tx.amount],
                   current_tx.tx, FALSE))

deposit_resolve_keeps_held(self, current_tx) ==
    LET amount == self.tx_history[current_tx.tx].transaction.amount IN
    Ok(SetDisputed([self EXCEPT !.available = @ + amount,
                                !.total = @ + amount],
                   current_tx.tx, FALSE))

deposit_resolve(self, current_tx) ==
    LET amount == self.tx_history[current_tx.tx].transaction.amount IN
    Ok(SetDisputed([self EXCEPT !.available = @ + amount,
                                !.held = @ - amount],
                   current_tx.tx, FALSE))

\* handle_disputes, stored Deposit, current Chargeback
deposit_chargeback_clears_flag(self, current_tx) ==
    LET amount == self.tx_history[current_tx.tx].transaction.amount IN
    Ok(SetDisputed([self EXCEPT !.total = @ - amount,
                                !.held = @ - amount,
                                !.locked = TRUE],
                   current_tx.tx, FALSE))

deposit_chargeback_like_withdrawal(self, current_tx) ==
    LET amount == self.tx_history[current_tx.tx].transaction.amount IN
    Ok([self EXCEPT !.available = @ + amount,
                    !.held = @ - amount,
                    !.locked = TRUE])

deposit_chargeback(self, current_tx) ==
    LET amount == self.tx_history[current_tx.tx].transaction.amount IN
    Ok([self EXCEPT !.total = @ - amount,
                    !.held = @ - amount,
                    !.locked = TRUE])

\* handle_disputes, stored Withdrawal, current Dispute
withdrawal_dispute_like_deposit(self, current_tx) ==
    LET amount == self.tx_history[current_tx.tx].transaction.amount IN
    IF self.available < amount
    THEN Err(self, "UnsufficientFunds")
    ELSE Ok(SetDisputed([self EXCEPT !.available = @ - amount,
                                     !.held = @ + amount],
                        current_tx.tx, TRUE))

withdrawal_dispute(self, current_tx) ==
    LET amount == self.tx_history[current_tx.tx].transaction.amount IN
    Ok(SetDisputed([self EXCEPT !.total = @ + amount,
                                !.held = @ + amount],
                   current_tx.tx, TRUE))

\* handle_disputes, stored Withdrawal, current Resolve
withdrawal_resolve_locks(self, current_tx) ==
    LET amount == self.tx_history[current_tx.tx].transaction.amount IN
    Ok(SetDisputed([self EXCEPT !.total = @ - amount,
                                !.held = @ - amount,
                                !.locked = TRUE],
                   current_tx.tx, FALSE))

withdrawal_resolve_like_deposit(self, current_tx) ==
    LET amount == self.tx_history[current_tx.tx].transaction.amount IN
    Ok(SetDisputed([self EXCEPT !.available = @ + amount,
                                !.held = @ - amount],
                   current_tx.tx, FALSE))

withdrawal_resolve(self, current_tx) ==
    LET amount == self.tx_history[current_tx.tx].transaction.amount IN
    Ok(SetDisputed([self EXCEPT !.total = @ - amount,
                                !.held = @ - amount],
                   current_tx.tx, FALSE))

\* handle_disputes, stored Withdrawal, current Chargeback
withdrawal_chargeback_raises_total(self, current_tx) ==
    LET amount == self.tx_history[current_tx.tx].transaction.amount IN
    Ok([self EXCEPT !.available = @ + amount,
                    !.total = @ + amount,
                    !.held = @ - amount,
                    !.locked = TRUE])

withdrawal_chargeback_like_deposit(self, current_tx) ==
    LET amount == self.tx_history[current_tx.tx].transaction.amount IN
    Ok([self EXCEPT !.total = @ - amount,
                    !.held = @ - amount,
                    !.locked = TRUE])

withdrawal_chargeback(self, current_tx) ==
    LET amount == self.tx_history[current_tx.tx].transaction.amount IN
    Ok([self EXCEPT !.available = @ + amount,
                    !.held = @ - amount,
                    !.locked = TRUE])

\* handle_disputes, second match: the stored transaction's type, then the
\* current one's
dispute_effect(self, current_tx) ==
    LET stored == self.tx_history[current_tx.tx].transaction.type IN
    CASE stored = "Deposit" ->
            (CASE current_tx.type = "Dispute" -> deposit_dispute(self, current_tx)
               [] current_tx.type = "Resolve" -> deposit_resolve(self, current_tx)
               [] current_tx.type = "Chargeback" -> deposit_chargeback(self, current_tx)
               [] OTHER -> Err(self, "Panic"))
      [] stored = "Withdrawal" ->
            (CASE current_tx.type = "Dispute" -> withdrawal_dispute(self, current_tx)
               [] current_tx.type = "Resolve" -> withdrawal_resolve(self, current_tx)
               [] current_tx.type = "Chargeback" -> withdrawal_chargeback(self, current_tx)
               [] OTHER -> Err(self, "Panic"))
      [] OTHER -> Err(self, "Panic")

\* Account::handle_disputes
handle_disputes_stores_unknown(self, current_tx) ==
    IF current_tx.tx \notin DOMAIN self.tx_history
    THEN Err(save_tx(self, current_tx).self, "NotFound")
    ELSE LET disputable_tx == self.tx_history[current_tx.tx]
             gate == legality_gate(disputable_tx.disputed, current_tx.type)
         IN  IF gate # "Ok"
             THEN Err(self, gate)
             ELSE dispute_effect(self, current_tx)

handle_disputes(self, current_tx) ==
    IF current_tx.tx \notin DOMAIN self.tx_history
    THEN Err(self, "NotFound")
    ELSE LET disputable_tx == self.tx_history[current_tx.tx]
             gate == legality_gate(disputable_tx.disputed, current_tx.type)
         IN  IF gate # "Ok"
             THEN Err(self, gate)
             ELSE dispute_effect(self, current_tx)

\* Account::apply, arm TransactionType::Deposit
apply_deposit(self, tx) ==
    save_tx([self EXCEPT !.available = @ + tx.amount,
                         !.total = @ + tx.amount], tx)

\* Account::apply, arm TransactionType::Withdrawal
apply_withdrawal_strict(self, tx) ==
    IF self.available > tx.amount
    THEN save_tx([self EXCEPT !.available = @ - tx.amount,
                              !.total = @ - tx.amount], tx)
    ELSE Err(self, "UnsufficientFunds")

apply_withdrawal_stores_rejected(self, tx) ==
    IF self.available >= tx.amount
    THEN save_tx([self EXCEPT !.available = @ - tx.amount,
                              !.total = @ - tx.amount], tx)
    ELSE Err(save_tx(self, tx).self, "UnsufficientFunds")

apply_withdrawal_overdraws(self, tx) ==
    save_tx([self EXCEPT !.available = @ - tx.amount,
                         !.total = @ - tx.amount], tx)

apply_withdrawal(self, tx) ==
    IF self.available >= tx.amount
    THEN save_tx([self EXCEPT !.available = @ - tx.amount,
                              !.total = @ - tx.amount], tx)
    ELSE Err(self, "UnsufficientFunds")

\* Account::apply
apply_checks_lock_on_funds_only(self, tx) ==
    CASE tx.type = "Deposit" ->
            IF self.locked THEN Err(self, "AccountLocked") ELSE apply_deposit(self, tx)
      [] tx.type = "Withdrawal" ->
            IF self.locked THEN Err(self, "AccountLocked") ELSE apply_withdrawal(self, tx)
      [] OTHER -> handle_disputes(self, tx)

apply(self, tx) ==
    IF self.locked
    THEN Err(self, "AccountLocked")
    ELSE CASE tx.type = "Deposit" -> apply_deposit(self, tx)
           [] tx.type = "Withdrawal" -> apply_withdrawal(self, tx)
           [] OTHER -> handle_disputes(self, tx)

\* ------------------------------------------- transaction.rs, serde_amount
\* f64 arithmetic, exact: a natural number of any size is a sequence of
\* limbs below Limb, least significant first, without a leading zero limb
Limb == 2^10

BigFromInt(n) ==
    LET RECURSIVE limbs(_)
        limbs(v) == IF v = 0 THEN <<>> ELSE <<v % Limb>> \o limbs(v \div Limb)
    IN  limbs(n)

BigToInt(s) ==
    LET RECURSIVE value(_)
        value(t) == IF t = <<>> THEN 0 ELSE Head(t) + Limb * value(Tail(t))
    IN  value(s)

BigNorm(s) ==
    LET RECURSIVE strip(_)
        strip(t) == IF t # <<>> /\ t[Len(t)] = 0
                    THEN strip(SubSeq(t, 1, Len(t) - 1))
                    ELSE t
    IN  strip(s)

\* s * c + carry, for c up to 2^20
BigMulSmall(s, c, carry) ==
    LET RECURSIVE mul(_, _)
        mul(t, k) == IF t = <<>>
                     THEN BigFromInt(k)
                     ELSE LET v == Head(t) * c + k
                          IN  <<v % Limb>> \o mul(Tail(t), v \div Limb)
    IN  BigNorm(mul(s, carry))

\* quotient and remainder of s by d, for d up to 2^20
BigDivSmall(s, d) ==
    LET RECURSIVE div(_)
        div(t) == IF t = <<>>
                  THEN [q |-> <<>>, r |-> 0]
                  ELSE LET hi == div(Tail(t))
                           v == hi.r * Limb + Head(t)
                       IN  [q |-> <<v \div d>> \o hi.q, r |-> v % d]
        qr == div(s)
    IN  [q |-> BigNorm(qr.q), r |-> qr.r]

BigLess(a, b) ==
    LET RECURSIVE less(_)
        less(i) == IF i = 0 THEN FALSE
                   ELSE IF a[i] # b[i] THEN a[i] < b[i]
                   ELSE less(i - 1)
    IN  IF Len(a) # Len(b) THEN Len(a) < Len(b) ELSE less(Len(a))

BigPow2(n) == [i \in 1..(n \div 10) |-> 0] \o <<2^(n % 10)>>

BigOdd(s) == s # <<>> /\ s[1] % 2 = 1

\* the significand of an f64 has MantissaBits bits
MantissaBits == 53

\* a finite f64 is neg, m and e with value m * 2^e, where m has exactly
\* MantissaBits bits, or is zero with e = 0 (no subnormal, no overflow: the
\* amounts read are far from both)
F64(neg, m, e) == [neg |-> neg, m |-> m, e |-> e]

\* m one past the largest significand is the smallest one, one binade up
F64Carry(neg, m, e) ==
    IF m = BigPow2(MantissaBits)
    THEN F64(neg, BigPow2(MantissaBits - 1), e + 1)
    ELSE F64(neg, m, e)

\* the f64 nearest to n / d, ties to even, for naturals n and d up to 2^20:
\* what str::parse::<f64> makes of the numeral n / 10^k, and what the f64
\* division of the integer n by d returns
F64FromRatio(neg, n, d) ==
    LET lo == BigMulSmall(BigPow2(MantissaBits - 1), d, 0)
        RECURSIVE scale(_, _)
        scale(N, e) == IF BigLess(N, lo)
                       THEN scale(BigMulSmall(N, 2, 0), e - 1)
                       ELSE [N |-> N, e |-> e]
        sc == scale(BigFromInt(n), 0)
        qr == BigDivSmall(sc.N, d)
        up == 2 * qr.r > d \/ (2 * qr.r = d /\ BigOdd(qr.q))
    IN  IF n = 0
        THEN F64(neg, <<>>, 0)
        ELSE F64Carry(neg, IF up THEN BigMulSmall(qr.q, 1, 1) ELSE qr.q, sc.e)

\* x * c in f64 for an integer c up to 2^20: the exact product rounded to
\* MantissaBits bits, ties to even
F64MulSmall(x, c) ==
    LET top == BigPow2(MantissaBits)
        RECURSIVE scale(_, _, _, _)
        scale(P, e, half, sticky) ==
            IF BigLess(P, top)
            THEN [P |-> P, e |-> e, half |-> half, sticky |-> sticky]
            ELSE LET qr == BigDivSmall(P, 2)
                 IN  scale(qr.q, e + 1, qr.r = 1, sticky \/ half)
        sc == scale(BigMulSmall(x.m, c, 0), x.e, FALSE, FALSE)
        up == sc.half /\ (sc.sticky \/ BigOdd(sc.P))
    IN  IF x.m = <<>>
        THEN x
        ELSE F64Carry(x.neg, IF up THEN BigMulSmall(sc.P, 1, 1) ELSE sc.P, sc.e)

\* f64::trunc, as the magnitude of the integer it returns
F64TruncMagnitude(x) ==
    LET RECURSIVE shift(_, _)
        shift(m, e) == IF e >= 0 \/ m = <<>>
                       THEN m
                       ELSE shift(BigDivSmall(m, 2).q, e + 1)
    IN  BigToInt(shift(x.m, x.e))

DECIMAL_PLACES == 4

\* a decimal numeral of the input: the integer digits with the point places
\* digits from its end, as 3 and 4 for 0.0003
Numeral(neg, digits, places) == [neg |-> neg, digits |-> digits, places |-> places]

\* serde_amount::deserialize of the numeral that reads digits / 10^places,
\* with a minus sign when neg: factor is 10^4, exact in f64
deserialize(neg, digits, places) ==
    LET factor == 10^DECIMAL_PLACES
        val == F64FromRatio(neg, digits, 10^places)
    IN  F64FromRatio(neg, F64TruncMagnitude(F64MulSmall(val, factor)), factor)

\* ---------------------------------------------------------------- main.rs
\* the binary's own Account and Service (main.rs); its Account::apply has no
\* return value, written Unit; "Panic" stands for unreachable!()
Clients == {1, 2}

ClientTransaction(type, client, tx, amount) ==
    [type |-> type, client |-> client, tx |-> tx, amount |-> amount]

Unit(self) == [self |-> self, result |-> "Unit"]

\* Account::new over Account::default
main_Account_new(client_id) ==
    [id |-> client_id, available |-> 0, total |-> 0, held |-> 0,
     locked |-> FALSE, tx_history |-> <<>>]

\* Account::save_tx: HashMap::insert, which replaces an entry of the same id
main_save_tx(self, tx) ==
    [self EXCEPT !.tx_history =
        [id \in DOMAIN self.tx_history \cup {tx.tx} |->
            IF id = tx.tx
            THEN DisputableTransaction(tx, FALSE)
            ELSE self.tx_history[id]]]

main_SetDisputed(self, id, flag) ==
    [self EXCEPT !.tx_history[id].disputed = flag]

\* Account::apply, the arms of a Dispute, Resolve or Chargeback that the
\* first match lets through
main_dispute_effect(self, tx) ==
    LET disputable_tx == self.tx_history[tx.tx]
        amount == disputable_tx.transaction.amount
        stored == disputable_tx.transaction.type
    IN  CASE stored = "Deposit" /\ tx.type = "Dispute" ->
                Unit(main_SetDisputed([self EXCEPT !.available = @ - amount,
                                                   !.held = @ + amount],
                                      tx.tx, TRUE))
          [] stored = "Deposit" /\ tx.type = "Resolve" ->
                Unit(main_SetDisputed([self EXCEPT !.available = @ + amount,
                                                   !.held = @ - amount],
                                      tx.tx, FALSE))
          [] stored = "Deposit" /\ tx.type = "Chargeback" ->
                Unit([self EXCEPT !.total = @ - amount,
                                  !.held = @ - amount,
                                  !.locked = TRUE])
          [] stored = "Withdrawal" /\ tx.type = "Dispute" ->
                Unit(main_SetDisputed([self EXCEPT !.total = @ + amount,
                                                   !.held = @ + amount],
                                      tx.tx, TRUE))
          [] stored = "Withdrawal" /\ tx.type = "Resolve" ->
                Unit(main_SetDisputed([self EXCEPT !.total = @ - amount,
                                                   !.held = @ - amount],
                                      tx.tx, FALSE))
          [] stored = "Withdrawal" /\ tx.type = "Chargeback" ->
                Unit([self EXCEPT !.available = @ + amount,
                                  !.held = @ - amount,
                                  !.locked = TRUE])
          [] OTHER -> [self |-> self, result |-> "Panic"]

\* Account::apply of main.rs
main_apply(self, tx) ==
    CASE tx.type = "Deposit" ->
            Unit(main_save_tx([self EXCEPT !.available = @ + tx.amount,
                                           !.total = @ + tx.amount], tx))
      [] tx.type = "Withdrawal" ->
            IF self.available >= tx.amount
            THEN Unit(main_save_tx([self EXCEPT !.available = @ - tx.amount,
                                                !.total = @ - tx.amount], tx))
            ELSE Unit(self)
      [] OTHER ->
            IF tx.tx \in DOMAIN self.tx_history
            THEN LET disputed == self.tx_history[tx.tx].disputed IN
                 IF \/ disputed /\ tx.type = "Dispute"
                    \/ ~disputed /\ tx.type = "Resolve"
                    \/ ~disputed /\ tx.type = "Chargeback"
                 THEN Unit(self)
                 ELSE main_dispute_effect(self, tx)
            ELSE Unit(self)

\* Service::new
Service_new == <<>>

\* Service::apply with HashMap::insert in place of entry().or_insert()
Service_apply_inserts(service, tx) ==
    LET r == main_apply(main_Account_new(tx.client), tx) IN
    [accounts |-> [c \in DOMAIN service \cup {tx.client} |->
                      IF c = tx.client THEN r.self ELSE service[c]],
     result |-> r.result]

\* Service::apply with one entry for all clients, that of the lowest id
Service_apply_one_account(service, tx) ==
    LET key == CHOOSE c \in Clients : \A d \in Clients : c <= d
        entry == IF key \in DOMAIN service
                 THEN service[key]
                 ELSE main_Account_new(key)
        r == main_apply(entry, tx)
    IN  [accounts |-> [c \in DOMAIN service \cup {key} |->
                          IF c = key THEN r.self ELSE service[c]],
         result |-> r.result]

\* Service::apply
Service_apply(service, tx) ==
    LET entry == IF tx.client \in DOMAIN service
                 THEN service[tx.client]
                 ELSE main_Account_new(tx.client)
        r == main_apply(entry, tx)
    IN  [accounts |-> [c \in DOMAIN service \cup {tx.client} |->
                          IF c = tx.client THEN r.self ELSE service[c]],
         result |-> r.result]

\* --------------------------------------------------------- state machine
NoTx == [type |-> "None", client |-> 0, tx |-> 0, amount |-> 0]

Init ==
    /\ available = AccountDefault.available
    /\ held = AccountDefault.held
    /\ total = AccountDefault.total
    /\ locked = AccountDefault.locked
    /\ tx_history = AccountDefault.tx_history
    /\ last_tx = NoTx
    /\ result = "None"
    /\ before = AccountDefault
    /\ round_trip = <<>>
    /\ after_rejected = FALSE
    /\ redispute = <<>>
    /\ accounts = Service_new
    /\ svc_tx = NoTx
    /\ svc_result = "None"
    /\ svc_before = Service_new
    /\ svc_calls = 0
    /\ numeral = <<>>
    /\ parsed = <<>>

\* the balances a call may leave stay within the model's range
InBounds(self) ==
    /\ self.available \in (0 - MaxBalance)..MaxBalance
    /\ self.held \in (0 - MaxBalance)..MaxBalance
    /\ self.total \in (0 - MaxBalance)..MaxBalance

\* one call account.apply(tx), r being what it returns and leaves: the fields
\* become what the call leaves, also
\* when it returns Err; before, last_tx and result record the call, and
\* round_trip keeps the account as it was before a Dispute that succeeded
\* when the very next call is a Resolve of the same tx id; after_rejected
\* says that the call before this one was a Withdrawal of the same, not yet
\* stored tx id that was rejected for its funds; redispute keeps the result
\* of a Dispute that follows such a Dispute and Resolve of the same tx id
Call(tx, r) ==
    /\ available' = r.self.available
    /\ held' = r.self.held
    /\ total' = r.self.total
    /\ locked' = r.self.locked
    /\ tx_history' = r.self.tx_history
    /\ last_tx' = tx
    /\ result' = r.result
    /\ before' = Self
    /\ round_trip' = IF /\ last_tx.type = "Dispute" /\ result = "Ok"
                        /\ tx.type = "Resolve" /\ tx.tx = last_tx.tx
                     THEN <<before>>
                     ELSE <<>>
    /\ after_rejected' = (/\ last_tx.type = "Withdrawal"
                          /\ result = "UnsufficientFunds"
                          /\ tx.tx = last_tx.tx
                          /\ tx.tx \notin DOMAIN before.tx_history)
    /\ redispute' = IF /\ round_trip # <<>>
                       /\ tx.type = "Dispute" /\ tx.tx = last_tx.tx
                    THEN <<r.result>>
                    ELSE <<>>
    /\ UNCHANGED <<service_vars, amount_vars>>

Deposit ==
    \E id \in TxIds, amount \in Amounts :
        LET tx == Transaction("Deposit", id, amount)
            r == apply(Self, tx)
        IN  /\ InBounds(r.self)
            /\ Call(tx, r)

Withdrawal ==
    \E id \in TxIds, amount \in Amounts :
        LET tx == Transaction("Withdrawal", id, amount)
            r == apply(Self, tx)
        IN  /\ InBounds(r.self)
            /\ Call(tx, r)

Dispute ==
    \E id \in TxIds, amount \in PlaceholderAmounts :
        LET tx == Transaction("Dispute", id, amount)
            r == apply(Self, tx)
        IN  /\ InBounds(r.self)
            /\ Call(tx, r)

Resolve ==
    \E id \in TxIds, amount \in PlaceholderAmounts :
        LET tx == Transaction("Resolve", id, amount)
            r == apply(Self, tx)
        IN  /\ InBounds(r.self)
            /\ Call(tx, r)

Chargeback ==
    \E id \in TxIds, amount \in PlaceholderAmounts :
        LET tx == Transaction("Chargeback", id, amount)
            r == apply(Self, tx)
        IN  /\ InBounds(r.self)
            /\ Call(tx, r)

Next == Deposit \/ Withdrawal \/ Dispute \/ Resolve \/ Chargeback

Spec == Init /\ [][Next]_vars

\* one call service.apply(tx), r being what it leaves; svc_before, svc_tx and svc_result record it.
\* A Dispute, Resolve or Chargeback is submitted with amount 0: main.rs reads
\* the amount of the stored transaction only (main.rs:145-193)
ServiceCall(tx, r) ==
    /\ accounts' = r.accounts
    /\ svc_tx' = tx
    /\ svc_result' = r.result
    /\ svc_before' = accounts
    /\ svc_calls' = svc_calls + 1
    /\ UNCHANGED <<account_vars, amount_vars>>

\* the amounts of the deposits and withdrawals submitted to the service
ServiceAmounts == {0, MaxAmount}

ServiceInBounds(tx, r) ==
    /\ svc_calls < MaxCalls
    /\ InBounds(r.accounts[tx.client])

ServiceDeposit ==
    \E c \in Clients, id \in TxIds, amount \in ServiceAmounts :
        LET tx == ClientTransaction("Deposit", c, id, amount)
            r == Service_apply(accounts, tx)
        IN  /\ ServiceInBounds(tx, r)
            /\ ServiceCall(tx, r)

ServiceWithdrawal ==
    \E c \in Clients, id \in TxIds, amount \in ServiceAmounts :
        LET tx == ClientTransaction("Withdrawal", c, id, amount)
            r == Service_apply(accounts, tx)
        IN  /\ ServiceInBounds(tx, r)
            /\ ServiceCall(tx, r)

ServiceDispute ==
    \E c \in Clients, id \in TxIds :
        LET tx == ClientTransaction("Dispute", c, id, 0)
            r == Service_apply(accounts, tx)
        IN  /\ ServiceInBounds(tx, r)
            /\ ServiceCall(tx, r)

ServiceResolve ==
    \E c \in Clients, id \in TxIds :
        LET tx == ClientTransaction("Resolve", c, id, 0)
            r == Service_apply(accounts, tx)
        IN  /\ ServiceInBounds(tx, r)
            /\ ServiceCall(tx, r)

ServiceChargeback ==
    \E c \in Clients, id \in TxIds :
        LET tx == ClientTransaction("Chargeback", c, id, 0)
            r == Service_apply(accounts, tx)
        IN  /\ ServiceInBounds(tx, r)
            /\ ServiceCall(tx, r)

ServiceNext ==
    \/ ServiceDeposit
    \/ ServiceWithdrawal
    \/ ServiceDispute
    \/ ServiceResolve
    \/ ServiceChargeback

SpecService == Init /\ [][ServiceNext]_vars

\* the amount field of a record, not read before, is read from the input
Deserialize ==
    \E neg \in BOOLEAN, digits \in 0..MaxDigits, places \in 0..MaxPlaces :
        /\ numeral = <<>>
        /\ numeral' = Numeral(neg, digits, places)
        /\ parsed' = deserialize(neg, digits, places)
        /\ UNCHANGED <<account_vars, service_vars>>

AmountNext == Deserialize

SpecAmount == Init /\ [][AmountNext]_vars

\* ----------------------------------------------------------- properties
\* the entry stored under id in an account
Stored(self, id) == self.tx_history[id]

IsStored(self, id) == id \in DOMAIN self.tx_history

SameBalances(a, b) ==
    /\ a.available = b.available
    /\ a.held = b.held
    /\ a.total = b.total

C2_LockedAccountRejectsEverything ==
    before.locked => (result = "AccountLocked" /\ Self = before)

\* a dispute of a tx id that is not in history, on a locked account
C2_Witness ==
    /\ before.locked
    /\ last_tx.type = "Dispute"
    /\ ~IsStored(before, last_tx.tx)
    /\ result = "AccountLocked"

\* C3: an apply call that returns an error leaves available, held, total,
\* locked and the history with its disputed flags as they were
C3_ErrorLeavesAccountUnchanged ==
    result \in TransactionError => Self = before

\* C4: locked becomes true only through a successful Chargeback of a stored
\* deposit or withdrawal, and once true it stays true
C4_LockedOnlyByChargebackAndPermanent ==
    /\ (locked /\ ~before.locked) =>
          /\ last_tx.type = "Chargeback"
          /\ result = "Ok"
          /\ IsStored(before, last_tx.tx)
          /\ Stored(before, last_tx.tx).transaction.type \in {"Deposit", "Withdrawal"}
    /\ before.locked => locked

\* a resolve of the charged back entry, tried after the lock, leaves it locked
C4_Witness ==
    /\ before.locked
    /\ locked
    /\ last_tx.type = "Resolve"
    /\ IsStored(before, last_tx.tx)
    /\ Stored(before, last_tx.tx).disputed

\* tx_history of b is that of a with tx stored under its id, undisputed, and
\* every other entry as it was
StoredFresh(a, b, tx) ==
    /\ DOMAIN b.tx_history = DOMAIN a.tx_history \cup {tx.tx}
    /\ Stored(b, tx.tx) = DisputableTransaction(tx, FALSE)
    /\ \A id \in DOMAIN a.tx_history : Stored(b, id) = Stored(a, id)

\* C5: on an unlocked account a Withdrawal with a tx id not in history
\* succeeds exactly when available >= amount: then available and total drop
\* by the amount, held is unchanged and the transaction is stored undisputed;
\* otherwise it fails with UnsufficientFunds and nothing changes
C5_WithdrawalOfFreshId ==
    (/\ last_tx.type = "Withdrawal"
     /\ ~before.locked
     /\ ~IsStored(before, last_tx.tx)) =>
        IF before.available >= last_tx.amount
        THEN /\ result = "Ok"
             /\ available = before.available - last_tx.amount
             /\ total = before.total - last_tx.amount
             /\ held = before.held
             /\ locked = before.locked
             /\ StoredFresh(before, Self, last_tx)
        ELSE /\ result = "UnsufficientFunds"
             /\ Self = before

\* a withdrawal of exactly the available funds succeeded
C5_Witness ==
    /\ last_tx.type = "Withdrawal"
    /\ last_tx.amount > 0
    /\ before.available = last_tx.amount
    /\ ~IsStored(before, last_tx.tx)
    /\ result = "Ok"

\* the case of C6: the call was a Dispute of a stored, undisputed Deposit
\* whose amount exceeds available
DisputeOfDrainedDeposit ==
    /\ last_tx.type = "Dispute"
    /\ IsStored(before, last_tx.tx)
    /\ Stored(before, last_tx.tx).transaction.type = "Deposit"
    /\ ~Stored(before, last_tx.tx).disputed
    /\ before.available < Stored(before, last_tx.tx).transaction.amount

DisputeRejectedForFunds ==
    /\ result = "UnsufficientFunds"
    /\ SameBalances(Self, before)
    /\ ~Stored(Self, last_tx.tx).disputed

\* C6 as stated: a Dispute of a stored, undisputed Deposit while available is
\* less than the stored amount fails with UnsufficientFunds, changes no
\* balance and leaves the disputed flag false
C6_AsStated ==
    DisputeOfDrainedDeposit => DisputeRejectedForFunds

\* C6 amended: the same on an unlocked account (a locked account answers
\* AccountLocked before the history is looked at)
C6_DisputeOfDrainedDepositUnlocked ==
    (DisputeOfDrainedDeposit /\ ~before.locked) => DisputeRejectedForFunds

\* scenario F: the deposit was drained by a withdrawal, then disputed
C6_Witness ==
    /\ DisputeOfDrainedDeposit
    /\ ~before.locked
    /\ \E id \in DOMAIN before.tx_history :
          /\ Stored(before, id).transaction.type = "Withdrawal"
          /\ Stored(before, id).transaction.amount > 0
    /\ result = "UnsufficientFunds"

\* the case of C7: the call was a Deposit or Withdrawal of a stored tx id
DuplicateId ==
    /\ last_tx.type \in {"Deposit", "Withdrawal"}
    /\ IsStored(before, last_tx.tx)

EntryKept ==
    /\ IsStored(Self, last_tx.tx)
    /\ Stored(Self, last_tx.tx) = Stored(before, last_tx.tx)

\* C7 as stated: a Deposit or Withdrawal whose tx id is already in history
\* fails with AlreadyExist and the stored entry keeps its type, amount and
\* disputed flag
C7_AsStated ==
    DuplicateId => (result = "AlreadyExist" /\ EntryKept)

\* C7 amended: on an unlocked account a Deposit of a stored tx id, and a
\* Withdrawal of a stored tx id whose amount does not exceed available, fail
\* with AlreadyExist; a Withdrawal that exceeds available fails with
\* UnsufficientFunds and a call on a locked account with AccountLocked; in
\* every one of these cases the stored entry keeps its type, amount and flag
C7_DuplicateIdRejected ==
    DuplicateId =>
        /\ EntryKept
        /\ result = IF before.locked THEN "AccountLocked"
                    ELSE IF /\ last_tx.type = "Withdrawal"
                            /\ before.available < last_tx.amount
                         THEN "UnsufficientFunds"
                         ELSE "AlreadyExist"

\* a deposit under the id of a disputed withdrawal was rejected
C7_Witness ==
    /\ DuplicateId
    /\ last_tx.type = "Deposit"
    /\ Stored(before, last_tx.tx).transaction.type = "Withdrawal"
    /\ Stored(before, last_tx.tx).disputed
    /\ last_tx.amount # Stored(before, last_tx.tx).transaction.amount
    /\ result = "AlreadyExist"

\* C8: on an unlocked account a Deposit with a tx id not in history succeeds,
\* raises available and total by the amount, leaves held and locked alone
\* and stores the transaction under its id with disputed = false
C8_DepositOfFreshId ==
    (/\ last_tx.type = "Deposit"
     /\ ~before.locked
     /\ ~IsStored(before, last_tx.tx)) =>
        /\ result = "Ok"
        /\ available = before.available + last_tx.amount
        /\ total = before.total + last_tx.amount
        /\ held = before.held
        /\ locked = before.locked
        /\ StoredFresh(before, Self, last_tx)

\* a deposit on an account that already holds disputed funds
C8_Witness ==
    /\ last_tx.type = "Deposit"
    /\ last_tx.amount > 0
    /\ ~IsStored(before, last_tx.tx)
    /\ before.held > 0
    /\ result = "Ok"

\* tx_history of b is that of a but for the disputed flag of id, which is d
FlagSet(a, b, id, d) ==
    /\ DOMAIN b.tx_history = DOMAIN a.tx_history
    /\ Stored(b, id) = DisputableTransaction(Stored(a, id).transaction, d)
    /\ \A other \in DOMAIN a.tx_history \ {id} : Stored(b, other) = Stored(a, other)

\* C9: a successful Dispute of a stored Deposit lowers available by the
\* stored amount, raises held by it, leaves total and locked unchanged and
\* sets the entry's disputed flag
C9_DisputeOfDeposit ==
    (/\ last_tx.type = "Dispute"
     /\ result = "Ok"
     /\ IsStored(before, last_tx.tx)
     /\ Stored(before, last_tx.tx).transaction.type = "Deposit") =>
        LET amount == Stored(before, last_tx.tx).transaction.amount IN
        /\ ~Stored(before, last_tx.tx).disputed
        /\ before.available >= amount
        /\ available = before.available - amount
        /\ held = before.held + amount
        /\ total = before.total
        /\ locked = before.locked
        /\ FlagSet(before, Self, last_tx.tx, TRUE)

\* a deposit was disputed with an amount field that differs from the stored
\* amount, while other funds stay available
C9_Witness ==
    /\ last_tx.type = "Dispute"
    /\ result = "Ok"
    /\ IsStored(before, last_tx.tx)
    /\ Stored(before, last_tx.tx).transaction.type = "Deposit"
    /\ Stored(before, last_tx.tx).transaction.amount > 0
    /\ last_tx.amount # Stored(before, last_tx.tx).transaction.amount
    /\ available > 0

CallOn(type, stored) ==
    /\ last_tx.type = type
    /\ IsStored(before, last_tx.tx)
    /\ Stored(before, last_tx.tx).transaction.type = stored

StoredAmount == Stored(before, last_tx.tx).transaction.amount

\* C11: a successful Chargeback of a disputed stored Deposit lowers total and
\* held by the stored amount, leaves available unchanged and locks the account
C11_ChargebackOfDeposit ==
    (CallOn("Chargeback", "Deposit") /\ result = "Ok") =>
        /\ Stored(before, last_tx.tx).disputed
        /\ total = before.total - StoredAmount
        /\ held = before.held - StoredAmount
        /\ available = before.available
        /\ locked

\* a deposit of a positive amount was charged back while funds stay available
C11_Witness ==
    /\ CallOn("Chargeback", "Deposit")
    /\ result = "Ok"
    /\ StoredAmount > 0
    /\ available > 0

\* C12: on an unlocked account a Dispute of a stored, undisputed Withdrawal
\* always succeeds, raises total and held by the stored amount, leaves
\* available unchanged and sets the entry's disputed flag
C12_DisputeOfWithdrawal ==
    (/\ CallOn("Dispute", "Withdrawal")
     /\ ~before.locked
     /\ ~Stored(before, last_tx.tx).disputed) =>
        /\ result = "Ok"
        /\ total = before.total + StoredAmount
        /\ held = before.held + StoredAmount
        /\ available = before.available
        /\ locked = before.locked
        /\ FlagSet(before, Self, last_tx.tx, TRUE)

\* a withdrawal that drained the account was disputed: available is below
\* the stored amount and the dispute succeeds all the same
C12_Witness ==
    /\ CallOn("Dispute", "Withdrawal")
    /\ StoredAmount > 0
    /\ before.available < StoredAmount
    /\ result = "Ok"

\* C13: a successful Chargeback of a disputed stored Withdrawal raises
\* available by the stored amount, lowers held by it, leaves total unchanged
\* and locks the account
C13_ChargebackOfWithdrawal ==
    (CallOn("Chargeback", "Withdrawal") /\ result = "Ok") =>
        /\ Stored(before, last_tx.tx).disputed
        /\ available = before.available + StoredAmount
        /\ held = before.held - StoredAmount
        /\ total = before.total
        /\ locked

\* scenario E: the withdrawal of a positive amount was charged back
C13_Witness ==
    /\ CallOn("Chargeback", "Withdrawal")
    /\ result = "Ok"
    /\ StoredAmount > 0
    /\ available = before.available + StoredAmount

\* the case of C14: the call was a Dispute of a stored, disputed transaction
DisputeOfDisputed ==
    /\ last_tx.type = "Dispute"
    /\ IsStored(before, last_tx.tx)
    /\ Stored(before, last_tx.tx).disputed

\* C14 as stated: a Dispute of a stored transaction whose disputed flag is
\* true fails with AlreadyDisputed and changes no balance
C14_AsStated ==
    DisputeOfDisputed => (result = "AlreadyDisputed" /\ SameBalances(Self, before))

\* C14 amended: on an unlocked account it fails with AlreadyDisputed, on a
\* locked one (the entry was charged back, or another one was) with
\* AccountLocked; in both cases nothing changes, so the amount is held once
C14_DisputeOfDisputedRejected ==
    DisputeOfDisputed =>
        /\ result = IF before.locked THEN "AccountLocked" ELSE "AlreadyDisputed"
        /\ Self = before

\* the same tx disputed twice in a row: the second call is refused and held
\* still counts the amount once
C14_Witness ==
    /\ DisputeOfDisputed
    /\ result = "AlreadyDisputed"
    /\ StoredAmount > 0
    /\ held = StoredAmount

\* the case of C15: the call was a Resolve or Chargeback of a stored,
\* undisputed transaction
SettleOfUndisputed ==
    /\ last_tx.type \in {"Resolve", "Chargeback"}
    /\ IsStored(before, last_tx.tx)
    /\ ~Stored(before, last_tx.tx).disputed

\* C15 as stated: a Resolve or Chargeback of a stored transaction whose
\* disputed flag is false fails with NotDisputed, changes no balance and does
\* not lock the account
C15_AsStated ==
    SettleOfUndisputed =>
        /\ result = "NotDisputed"
        /\ SameBalances(Self, before)
        /\ ~locked

\* C15 amended: on an unlocked account it fails with NotDisputed and the
\* account stays unlocked; on an account that another chargeback has locked
\* it fails with AccountLocked; in both cases nothing changes
C15_SettleOfUndisputedRejected ==
    SettleOfUndisputed =>
        /\ result = IF before.locked THEN "AccountLocked" ELSE "NotDisputed"
        /\ Self = before

\* a chargeback of an undisputed deposit was refused and did not lock
C15_Witness ==
    /\ SettleOfUndisputed
    /\ last_tx.type = "Chargeback"
    /\ StoredAmount > 0
    /\ result = "NotDisputed"
    /\ ~locked

DisputeTypes == {"Dispute", "Resolve", "Chargeback"}

\* C16: on an unlocked account a Dispute, Resolve or Chargeback whose tx id
\* is not in history fails with NotFound and changes nothing; so does one
\* that follows a Withdrawal of that id rejected for insufficient funds,
\* because the rejected Withdrawal was not stored
C16_UnknownIdNotFound ==
    /\ (/\ last_tx.type \in DisputeTypes
        /\ ~before.locked
        /\ ~IsStored(before, last_tx.tx)) =>
            (result = "NotFound" /\ Self = before)
    /\ (after_rejected /\ last_tx.type \in DisputeTypes) =>
            (result = "NotFound" /\ Self = before)

\* a withdrawal was rejected for its funds and a chargeback of its id, on an
\* account that has other transactions stored, was then answered NotFound
C16_Witness ==
    /\ after_rejected
    /\ last_tx.type = "Chargeback"
    /\ DOMAIN tx_history # {}
    /\ result = "NotFound"

\* C17: an entry's disputed flag starts false, becomes true only through a
\* successful Dispute of that entry and false only through a successful
\* Resolve of it; a Dispute that follows a Dispute and Resolve of the same
\* entry succeeds again; a Chargeback leaves the flag true
C17_DisputedFlagTwoStates ==
    /\ \A id \in DOMAIN tx_history :
          IF ~IsStored(before, id)
          THEN ~Stored(Self, id).disputed
          ELSE /\ (Stored(Self, id).disputed /\ ~Stored(before, id).disputed) =>
                      (last_tx.type = "Dispute" /\ last_tx.tx = id /\ result = "Ok")
               /\ (~Stored(Self, id).disputed /\ Stored(before, id).disputed) =>
                      (last_tx.type = "Resolve" /\ last_tx.tx = id /\ result = "Ok")
    /\ redispute # <<>> =>
          (redispute[1] = "Ok" /\ Stored(Self, last_tx.tx).disputed)
    /\ (last_tx.type = "Chargeback" /\ result = "Ok") =>
          /\ tx_history = before.tx_history
          /\ Stored(Self, last_tx.tx).disputed

\* a deposit of a positive amount was disputed, resolved and disputed again
C17_Witness ==
    /\ redispute = <<"Ok">>
    /\ Stored(Self, last_tx.tx).transaction.type = "Deposit"
    /\ Stored(Self, last_tx.tx).transaction.amount > 0
    /\ held > 0

\* the last call made again, on the account as it was, with another amount
\* field in the transaction
WithAmount(a) == [last_tx EXCEPT !.amount = a]

Replayed(a) == apply(before, WithAmount(a))

\* C18 as stated: the result value and the resulting account state of a
\* Dispute, Resolve or Chargeback do not depend on the amount field of that
\* transaction
C18_AsStated ==
    last_tx.type \in DisputeTypes =>
        \A a \in Amounts :
            /\ Replayed(a).self = Self
            /\ Replayed(a).result = result
            /\ ResultValue(Replayed(a).result, WithAmount(a)) = ResultValue(result, last_tx)

\* C18 amended: the resulting account state and the result (Ok or the kind
\* of error) do not depend on the amount field, and neither does the value
\* the error carries, but for UnsufficientFunds, which carries the submitted
\* transaction with its amount
C18_AmountFieldNotApplied ==
    last_tx.type \in DisputeTypes =>
        \A a \in Amounts :
            /\ Replayed(a).self = Self
            /\ Replayed(a).result = result
            /\ result # "UnsufficientFunds" =>
                  ResultValue(Replayed(a).result, WithAmount(a)) = ResultValue(result, last_tx)

\* a Resolve whose amount field differs from the stored amount released the
\* stored amount
C18_Witness ==
    /\ CallOn("Resolve", "Deposit")
    /\ result = "Ok"
    /\ StoredAmount > 0
    /\ last_tx.amount # StoredAmount
    /\ available = before.available + StoredAmount

StoredTypes == {"Deposit", "Withdrawal"}

\* C19: the history holds only Deposit and Withdrawal transactions, each
\* under its own tx id; a Dispute, Resolve or Chargeback is never stored and
\* a rejected Withdrawal is never stored; no call has reached unreachable!()
\* and no call that can follow reaches it
C19_OnlyDepositsAndWithdrawalsStored ==
    /\ \A id \in DOMAIN tx_history :
          /\ Stored(Self, id).transaction.type \in StoredTypes
          /\ Stored(Self, id).transaction.tx = id
    /\ last_tx.type \in DisputeTypes => DOMAIN tx_history = DOMAIN before.tx_history
    /\ (last_tx.type = "Withdrawal" /\ result = "UnsufficientFunds") =>
          tx_history = before.tx_history
    /\ result # "Panic"
    /\ \A type \in TransactionType, id \in TxIds, a \in Amounts :
          apply(Self, Transaction(type, id, a)).result # "Panic"

\* a withdrawal of a fresh id was rejected while another entry is disputed
C19_Witness ==
    /\ last_tx.type = "Withdrawal"
    /\ result = "UnsufficientFunds"
    /\ ~IsStored(Self, last_tx.tx)
    /\ \E id \in DOMAIN tx_history : Stored(Self, id).disputed

\* the client of the last Service::apply call
Client == svc_tx.client

\* the account of a client as Account::new leaves it
IsNewAccount(account, c) ==
    /\ account.id = c
    /\ account.available = 0 /\ account.held = 0 /\ account.total = 0
    /\ ~account.locked
    /\ account.tx_history = <<>>

\* the last call was the first for its client and main.rs applied nothing:
\* a Withdrawal of more than zero, or a Dispute, Resolve or Chargeback
FirstSeenAndRejected ==
    /\ Client \notin DOMAIN svc_before
    /\ \/ svc_tx.type = "Withdrawal" /\ svc_tx.amount > 0
       \/ svc_tx.type \in DisputeTypes

\* C20: Service::apply leaves an account for tx.client, created with zero
\* balances and locked = false when the client is seen first, also when that
\* first transaction is rejected; a later transaction of the client acts on
\* the account that exists, and no other account is created or changed
C20_AccountCreatedOnFirstSight ==
    svc_tx # NoTx =>
        /\ DOMAIN accounts = DOMAIN svc_before \cup {Client}
        /\ accounts[Client].id = Client
        /\ \A c \in DOMAIN svc_before \ {Client} : accounts[c] = svc_before[c]
        /\ FirstSeenAndRejected => IsNewAccount(accounts[Client], Client)
        /\ (Client \notin DOMAIN svc_before /\ svc_tx.type = "Deposit") =>
              /\ accounts[Client].available = svc_tx.amount
              /\ accounts[Client].total = svc_tx.amount
              /\ accounts[Client].held = 0
              /\ ~accounts[Client].locked
        /\ Client \in DOMAIN svc_before =>
              /\ DOMAIN svc_before[Client].tx_history \subseteq
                    DOMAIN accounts[Client].tx_history
              /\ svc_tx.type = "Deposit" =>
                    accounts[Client].total = svc_before[Client].total + svc_tx.amount
              /\ (/\ svc_tx.type = "Withdrawal"
                  /\ svc_tx.amount <= svc_before[Client].available) =>
                    accounts[Client].total = svc_before[Client].total - svc_tx.amount

\* a client whose first transaction was rejected, so that its account existed
\* with zero balances and no history, made a deposit into that account after
\* the other client's account had funds
C20_Witness ==
    /\ Client \in DOMAIN svc_before
    /\ IsNewAccount(svc_before[Client], Client)
    /\ svc_tx.type = "Deposit" /\ svc_tx.amount > 0
    /\ accounts[Client].total = svc_tx.amount
    /\ \E c \in DOMAIN accounts \ {Client} : accounts[c].total > 0

\* the account the last Service::apply call acted on, as it was before
Entry ==
    IF Client \in DOMAIN svc_before
    THEN svc_before[Client]
    ELSE main_Account_new(Client)

\* the last Service::apply call was for a transaction main.rs does not
\* apply: a Withdrawal above available, or a Dispute, Resolve or Chargeback
\* of an id that is not in the history
ServiceRejectedForFunds ==
    svc_tx.type = "Withdrawal" /\ Entry.available < svc_tx.amount

ServiceRejectedNotFound ==
    svc_tx.type \in DisputeTypes /\ svc_tx.tx \notin DOMAIN Entry.tx_history

\* C21: Service::apply returns Ok when the transaction was applied and the
\* typed TransactionError when it was rejected: UnsufficientFunds for a
\* Withdrawal above available, NotFound for a Dispute, Resolve or Chargeback
\* of an unknown id
C21_ServiceReturnsAccountResult ==
    svc_tx # NoTx =>
        /\ svc_result \in {"Ok"} \cup TransactionError
        /\ ServiceRejectedForFunds => svc_result = "UnsufficientFunds"
        /\ ServiceRejectedNotFound => svc_result = "NotFound"
        /\ svc_tx.type = "Deposit" => svc_result = "Ok"

\* the 4-decimal value the numeral is cut to: itself when it has at most
\* DECIMAL_PLACES fractional digits, else the digits beyond them dropped
Truncated ==
    IF numeral.places <= DECIMAL_PLACES
    THEN F64FromRatio(numeral.neg, numeral.digits, 10^numeral.places)
    ELSE F64FromRatio(numeral.neg,
                      numeral.digits \div 10^(numeral.places - DECIMAL_PLACES),
                      10^DECIMAL_PLACES)

\* C22: the amount read is the numeral truncated toward zero to 4 decimal
\* places: a numeral of at most 4 fractional digits is read unchanged, one of
\* more digits as the largest-in-magnitude 4-decimal value not above it
C22_ParseTruncatesTowardZero == numeral # <<>> => parsed = Truncated

\* C23: once a Chargeback has locked the account of a client, no later
\* Service::apply call for that client changes its available, held or total
C23_LockedAccountFrozenInService ==
    (svc_tx # NoTx /\ Client \in DOMAIN svc_before /\ svc_before[Client].locked) =>
        SameBalances(accounts[Client], svc_before[Client])

\* the sum of the stored amounts of the entries whose disputed flag is true
DisputedAmount(self) ==
    LET RECURSIVE sum(_)
        sum(ids) == IF ids = {}
                    THEN 0
                    ELSE LET id == CHOOSE i \in ids : TRUE
                         IN  (IF Stored(self, id).disputed
                              THEN Stored(self, id).transaction.amount
                              ELSE 0) + sum(ids \ {id})
    IN  sum(DOMAIN self.tx_history)

ServiceTransactions(c) ==
    {ClientTransaction(type, c, id, amount) :
        type \in {"Deposit", "Withdrawal"}, id \in TxIds, amount \in ServiceAmounts}
    \cup {ClientTransaction(type, c, id, 0) : type \in DisputeTypes, id \in TxIds}

\* C26: Service::apply changes only the account of tx.client, and the last
\* call commutes with every transaction of another client: made before it or
\* after it from the same service state, the accounts end up the same
C26_ClientsAreIndependent ==
    svc_tx # NoTx =>
        /\ \A c \in DOMAIN svc_before \ {Client} : accounts[c] = svc_before[c]
        /\ DOMAIN accounts \subseteq DOMAIN svc_before \cup {Client}
        /\ \A c \in Clients \ {Client} : \A other \in ServiceTransactions(c) :
              LET swapped ==
                      Service_apply(Service_apply(svc_before, other).accounts, svc_tx).accounts
              IN  /\ swapped = Service_apply(accounts, other).accounts
                  /\ swapped[Client] = accounts[Client]

\* a dispute changed the account of one client while the other client has an
\* account with funds and a stored transaction of the same id
C26_Witness ==
    /\ svc_tx.type = "Dispute"
    /\ accounts[Client].held > 0
    /\ \E c \in DOMAIN accounts \ {Client} :
          /\ accounts[c].total > 0
          /\ svc_tx.tx \in DOMAIN accounts[c].tx_history

\* the tx id of the last Service::apply call is stored for another client
\* and not for the client of the call
ForeignId ==
    /\ svc_tx # NoTx
    /\ svc_tx.tx \notin DOMAIN Entry.tx_history
    /\ \E c \in DOMAIN svc_before \ {Client} : svc_tx.tx \in DOMAIN svc_before[c].tx_history

\* what C27 says of the accounts: a Dispute, Resolve or Chargeback of an id
\* stored only for another client changes no balance, flag or lock of either
\* account, and a Deposit of such an id is stored for both clients
C27_IdsArePerAccount ==
    /\ (ForeignId /\ svc_tx.type \in DisputeTypes) =>
          /\ \A c \in DOMAIN svc_before : accounts[c] = svc_before[c]
          /\ accounts[Client] = Entry
    /\ (ForeignId /\ svc_tx.type = "Deposit") =>
          /\ svc_result # "AlreadyExist"
          /\ accounts[Client].tx_history[svc_tx.tx] = DisputableTransaction(svc_tx, FALSE)
          /\ accounts[Client].total = Entry.total + svc_tx.amount
          /\ \A c \in DOMAIN svc_before \ {Client} : accounts[c] = svc_before[c]

\* C27: tx ids are looked up and checked per account only: a Dispute, Resolve
\* or Chargeback for a client that references an id stored only in another
\* client's history is rejected as not found and changes no balance, flag or
\* lock of either account, and a Deposit of an id another client has used
\* is stored in both accounts without AlreadyExist
C27_ForeignIdNotFound ==
    /\ C27_IdsArePerAccount
    /\ (ForeignId /\ svc_tx.type \in DisputeTypes) => svc_result = "NotFound"

====
